---- MODULE Spec2Model ----
(***************************************************************************)
(* Transaction lifecycle (admission gate, registry, commit / rollback,     *)
(* monitor) and session multiplexer of the MCP PostgreSQL server           *)
(* (src/src/index.ts).                                                     *)
(*                                                                         *)
(* Every handler is an async function: it runs atomically up to its next   *)
(* await, so each handler is split into one action per await-free segment. *)
(* ./lib/transaction-manager.js, ./lib/tool-handlers.js and ./lib/utils.js *)
(* are imported by index.ts but are not part of the source at hand; the    *)
(* operations they supply (registry, handleExecuteDML, handleExecuteCommit,*)
(* the monitor, safelyReleaseClient) follow sections 4.1 - 4.4 of the      *)
(* specification.                                                          *)
(***************************************************************************)
EXTENDS Integers, FiniteSets, Sequences, TLC

\* ---------------------------------------------------------------- bounds
MaxTx == 2          \* transactions that can be begun in one behaviour
MaxReq == 2         \* tool calls in flight at the same time
MaxHttp == 2        \* HTTP requests in flight at the same time
MaxSess == 2        \* sessions (pairings) that can be created in one behaviour
MaxClose == 2       \* closure signals counted per transport

\* ------------------------------------------------------- program constants
maxConcurrentTransactions == 1   \* config.maxConcurrentTransactions
maxConnections == 2              \* config.pg.maxConnections
transactionTimeoutMs == 1        \* config.transactionTimeoutMs, in clock ticks
monitorIntervalMs == 2           \* config.monitorIntervalMs, in clock ticks

NoSid == 0          \* no mcp-session-id header

TxIds == 1..MaxTx
Reqs == 1..MaxReq
\* now - createdAt is tracked up to the first value at which nothing changes
AgeCap == transactionTimeoutMs + monitorIntervalMs + 2

VARIABLES
    \* --- transaction side
    registry,       \* TransactionManager's map: id -> age (now - createdAt)
    released,       \* tx.released, a field of the transaction object
    nextId,         \* next fresh transaction identifier
    origin,         \* for each transaction, the session its write call came
                    \* through (not stored by the program: transactions carry
                    \* no session)
    connHeld,       \* transactions whose connection is checked out of the pool
    poolIdle,       \* connections available in the pool
    releaseCalls,   \* number of release calls made on each transaction's client
    req,            \* tool calls in flight: kind, transaction id, position
    resp,           \* the tool response returned by the last step, if any
    finalizedOk,    \* success confirmations returned by commit / rollback, per id
    enableTransactionMonitor,
    untilWake,      \* ticks until the monitor's next wake
    sweep,          \* entries the current wake has still to look at
    monInflight,    \* entry whose forced ROLLBACK is awaited (0: none)
    monitorLog,     \* identifiers of forced expiries (the observability events)
    \* --- session side
    transports,     \* the session map: session id -> pairing
    pairings,       \* every transport/server pairing constructed so far, with
                    \* its generator's id, transport.sessionId and the number
                    \* of closure signals it has given
    nextSid,        \* next fresh session identifier
    http,           \* HTTP requests on /mcp in flight
    hresp,          \* the HTTP response sent by the last step, if any
    process         \* the server process: "running" or "terminated"

txVars == <<registry, released, nextId, origin, connHeld, poolIdle, releaseCalls,
            req, resp, finalizedOk, enableTransactionMonitor, untilWake, sweep,
            monInflight, monitorLog>>
sessVars == <<transports, pairings, nextSid, http, hresp, process>>

\* handlers and callbacks run only while the process does
Running == process = "running"
vars == <<registry, released, nextId, origin, connHeld, poolIdle, releaseCalls,
          req, resp, finalizedOk, enableTransactionMonitor, untilWake, sweep,
          monInflight, monitorLog, transports, pairings, nextSid, http, hresp,
          process>>

\* ---------------------------------------------------------------- tool calls
\* the session whose request carries the tool call in slot r: the call is
\* run by the server of the transport that is handling that request
Carrier(r) ==
    IF r \in DOMAIN http /\ http[r].pc = "handling" THEN http[r].sid ELSE NoSid

IdleReq == [kind |-> "none", tid |-> 0, pc |-> "idle"]

NewReq(k, id, p) == [kind |-> k, tid |-> id, pc |-> p]

\* slot r takes the next call: the lowest slot with no call in flight
Free(r) ==
    /\ req[r].pc = "idle"
    /\ \A q \in Reqs : q < r => req[q].pc # "idle"

NoResp == [kind |-> "none", tid |-> 0, result |-> "none", pool |-> FALSE]

\* the handler's return value; pool: whether the call used the pool
Response(k, id, res, p) == [kind |-> k, tid |-> id, result |-> res, pool |-> p]

\* transactionManager.transactionCount
transactionCount == Cardinality(DOMAIN registry)

\* transactionManager.hasTransaction(id)
hasTransaction(id) == id \in DOMAIN registry

\* transactionManager.removeTransaction(id): removing an absent id is a no-op
removeTransaction(id) == [k \in DOMAIN registry \ {id} |-> registry[k]]

\* safelyReleaseClient(client): the checkout goes back to the pool once; a
\* second release of the same checkout is refused by the pool
ReleaseClient(id) ==
    /\ releaseCalls' = [releaseCalls EXCEPT ![id] = @ + 1]
    /\ connHeld' = connHeld \ {id}
    /\ poolIdle' = IF id \in connHeld THEN poolIdle + 1 ELSE poolIdle

monUnchanged == UNCHANGED <<enableTransactionMonitor, untilWake, sweep,
                            monInflight, monitorLog>>
regUnchanged == UNCHANGED <<registry, released, nextId, origin, finalizedOk>>
poolUnchanged == UNCHANGED <<connHeld, poolIdle, releaseCalls>>

\* ------------------------------------------------- execute_dml_ddl_dcl_tcl
\* write calls that passed the gate and have not yet registered or failed
DmlInFlight == {r \in Reqs : req[r].pc \in {"acquiring", "executing"}}

\* the gate with the connection taken before the count is compared
DmlRejectAfterAcquire(r) ==
    /\ transactionCount >= maxConcurrentTransactions
    /\ poolIdle > 0
    /\ poolIdle' = poolIdle - 1
    /\ resp' = Response("dml", 0, "CapacityExceeded", FALSE)
    /\ UNCHANGED <<req, connHeld, releaseCalls>>
    /\ regUnchanged

\* lines 79-84: the admission gate answers "Limit reached" and returns
DmlReject(r) ==
    /\ transactionCount >= maxConcurrentTransactions
    /\ resp' = Response("dml", 0, "CapacityExceeded", FALSE)
    /\ UNCHANGED req
    /\ regUnchanged /\ poolUnchanged

\* line 85: the gate lets the call through; handleExecuteDML is called and
\* runs up to its await of the pool
DmlAdmit(r) ==
    /\ transactionCount < maxConcurrentTransactions
    /\ req' = [req EXCEPT ![r] = NewReq("dml", 0, "acquiring")]
    /\ resp' = NoResp
    /\ regUnchanged /\ poolUnchanged

DmlGate(r) ==
    /\ Free(r)
    /\ nextId + Cardinality(DmlInFlight) <= MaxTx
    /\ (DmlReject(r) \/ DmlAdmit(r))
    /\ monUnchanged
    /\ UNCHANGED sessVars

\* pool.acquire() yields a connection
DmlAcquired(r) ==
    /\ req[r].pc = "acquiring"
    /\ poolIdle > 0
    /\ poolIdle' = poolIdle - 1
    /\ req' = [req EXCEPT ![r].pc = "executing"]
    /\ resp' = NoResp
    /\ UNCHANGED <<connHeld, releaseCalls>>
    /\ regUnchanged /\ monUnchanged
    /\ UNCHANGED sessVars

\* pool.acquire() fails: the pool is exhausted, or the connection is broken
DmlAcquireFailed(r) ==
    /\ req[r].pc = "acquiring"
    /\ req' = [req EXCEPT ![r] = IdleReq]
    /\ resp' = Response("dml", 0, "AcquireFailed", TRUE)
    /\ regUnchanged /\ poolUnchanged /\ monUnchanged
    /\ UNCHANGED sessVars

\* the statement ran: begin(connection) -> id registers the transaction
DmlExecuted(r) ==
    /\ req[r].pc = "executing"
    /\ nextId <= MaxTx
    /\ registry' = (nextId :> 0) @@ registry
    /\ released' = [released EXCEPT ![nextId] = FALSE]
    /\ connHeld' = connHeld \cup {nextId}
    /\ nextId' = nextId + 1
    /\ origin' = [origin EXCEPT ![nextId] = Carrier(r)]
    /\ req' = [req EXCEPT ![r] = IdleReq]
    /\ resp' = Response("dml", nextId, "ok", TRUE)
    /\ UNCHANGED <<poolIdle, releaseCalls, finalizedOk>>
    /\ monUnchanged
    /\ UNCHANGED sessVars

\* the database rejected the statement: nothing is registered and the
\* connection goes back to the pool
DmlFailed(r) ==
    /\ req[r].pc = "executing"
    /\ poolIdle' = poolIdle + 1
    /\ req' = [req EXCEPT ![r] = IdleReq]
    /\ resp' = Response("dml", 0, "UpstreamQueryError", TRUE)
    /\ UNCHANGED <<connHeld, releaseCalls>>
    /\ regUnchanged /\ monUnchanged
    /\ UNCHANGED sessVars

\* ------- execute_query, execute_maintenance, list_tables, describe_table,
\* ------- resource reads: handlers that are given the pool and nothing else
\* the read handler behind the admission gate
ReadStartGated(r) ==
    /\ Free(r)
    /\ IF transactionCount >= maxConcurrentTransactions
       THEN /\ resp' = Response("read", 0, "CapacityExceeded", FALSE)
            /\ UNCHANGED req
       ELSE /\ req' = [req EXCEPT ![r] = NewReq("read", 0, "readAcquiring")]
            /\ resp' = NoResp
    /\ regUnchanged /\ poolUnchanged /\ monUnchanged
    /\ UNCHANGED sessVars

\* lines 69-71, 121-123, 129-131, 137-139, 147-148, 160-161: the handler is
\* called with pool (and its arguments) and awaits it
ReadStart(r) ==
    /\ Free(r)
    /\ req' = [req EXCEPT ![r] = NewReq("read", 0, "readAcquiring")]
    /\ resp' = NoResp
    /\ regUnchanged /\ poolUnchanged /\ monUnchanged
    /\ UNCHANGED sessVars

\* the pool yields a connection for the statement
ReadAcquired(r) ==
    /\ req[r].pc = "readAcquiring"
    /\ poolIdle > 0
    /\ poolIdle' = poolIdle - 1
    /\ req' = [req EXCEPT ![r].pc = "reading"]
    /\ resp' = NoResp
    /\ UNCHANGED <<connHeld, releaseCalls>>
    /\ regUnchanged /\ monUnchanged
    /\ UNCHANGED sessVars

\* the pool fails to yield a connection; the catch answers with the message
ReadAcquireFailed(r) ==
    /\ req[r].pc = "readAcquiring"
    /\ req' = [req EXCEPT ![r] = IdleReq]
    /\ resp' = Response("read", 0, "AcquireFailed", TRUE)
    /\ regUnchanged /\ poolUnchanged /\ monUnchanged
    /\ UNCHANGED sessVars

\* the statement resolved or rejected; the connection goes back to the pool
\* and the result, or the error's message, is returned
ReadFinished(r) ==
    /\ req[r].pc = "reading"
    /\ poolIdle' = poolIdle + 1
    /\ req' = [req EXCEPT ![r] = IdleReq]
    /\ \E res \in {"ok", "UpstreamQueryError"} :
          resp' = Response("read", 0, res, TRUE)
    /\ UNCHANGED <<connHeld, releaseCalls>>
    /\ regUnchanged /\ monUnchanged
    /\ UNCHANGED sessVars

\* ---------------------------------------------------------- execute_rollback
\* the handler without its hasTransaction test: tx is undefined, reading
\* tx.released throws and the catch answers with the TypeError's message
RollbackNoHasCheck(r, id) ==
    /\ ~hasTransaction(id)
    /\ resp' = Response("rollback", id, "error", FALSE)
    /\ UNCHANGED req
    /\ regUnchanged /\ poolUnchanged

\* a handler that knows only the transactions of the calling session
RollbackNotFoundOtherSession(r, id) ==
    /\ ~hasTransaction(id) \/ origin[id] # Carrier(r)
    /\ resp' = Response("rollback", id, "NotFound", FALSE)
    /\ UNCHANGED req
    /\ regUnchanged /\ poolUnchanged

\* lines 101-103: the id is not in the registry
RollbackNotFound(r, id) ==
    /\ ~hasTransaction(id)
    /\ resp' = Response("rollback", id, "NotFound", FALSE)
    /\ UNCHANGED req
    /\ regUnchanged /\ poolUnchanged

\* the released branch giving the client back once more before it answers
RollbackAlreadyReleasedReleases(r, id) ==
    /\ hasTransaction(id)
    /\ released[id]
    /\ registry' = removeTransaction(id)
    /\ ReleaseClient(id)
    /\ resp' = Response("rollback", id, "AlreadyReleased", FALSE)
    /\ UNCHANGED <<req, released, nextId, origin, finalizedOk>>

\* lines 104-108: the entry is there and already released
RollbackAlreadyReleased(r, id) ==
    /\ hasTransaction(id)
    /\ released[id]
    /\ registry' = removeTransaction(id)
    /\ resp' = Response("rollback", id, "AlreadyReleased", FALSE)
    /\ UNCHANGED <<req, released, nextId, origin, finalizedOk>>
    /\ poolUnchanged

\* line 109: ROLLBACK is sent and awaited; tx.released is still false
RollbackIssue(r, id) ==
    /\ hasTransaction(id)
    /\ ~released[id]
    /\ req' = [req EXCEPT ![r] = NewReq("rollback", id, "awaitRollback")]
    /\ resp' = NoResp
    /\ regUnchanged /\ poolUnchanged

RollbackStart(r, id) ==
    /\ Free(r)
    /\ (RollbackNotFound(r, id) \/ RollbackAlreadyReleased(r, id) \/ RollbackIssue(r, id))
    /\ monUnchanged
    /\ UNCHANGED sessVars

\* the resumed handler answering without removing the entry
RollbackResumeKeepsEntry(r) ==
    /\ req[r].pc = "awaitRollback"
    /\ released' = [released EXCEPT ![req[r].tid] = TRUE]
    /\ ReleaseClient(req[r].tid)
    /\ finalizedOk' = [finalizedOk EXCEPT ![req[r].tid] = @ + 1]
    /\ req' = [req EXCEPT ![r] = IdleReq]
    /\ resp' = Response("rollback", req[r].tid, "ok", TRUE)
    /\ UNCHANGED <<registry, nextId, origin>>
    /\ monUnchanged
    /\ UNCHANGED sessVars

\* lines 110-115: the ROLLBACK resolved
RollbackResume(r) ==
    /\ req[r].pc = "awaitRollback"
    /\ released' = [released EXCEPT ![req[r].tid] = TRUE]
    /\ ReleaseClient(req[r].tid)
    /\ registry' = removeTransaction(req[r].tid)
    /\ finalizedOk' = [finalizedOk EXCEPT ![req[r].tid] = @ + 1]
    /\ req' = [req EXCEPT ![r] = IdleReq]
    /\ resp' = Response("rollback", req[r].tid, "ok", TRUE)
    /\ UNCHANGED <<nextId, origin>>
    /\ monUnchanged
    /\ UNCHANGED sessVars

\* a catch that finalizes the transaction before it answers
RollbackFailedFinalizes(r) ==
    /\ req[r].pc = "awaitRollback"
    /\ released' = [released EXCEPT ![req[r].tid] = TRUE]
    /\ ReleaseClient(req[r].tid)
    /\ registry' = removeTransaction(req[r].tid)
    /\ req' = [req EXCEPT ![r] = IdleReq]
    /\ resp' = Response("rollback", req[r].tid, "error", FALSE)
    /\ UNCHANGED <<nextId, origin, finalizedOk>>
    /\ monUnchanged
    /\ UNCHANGED sessVars

\* lines 116-118: the ROLLBACK rejected; the catch answers with the message
RollbackFailed(r) ==
    /\ req[r].pc = "awaitRollback"
    /\ req' = [req EXCEPT ![r] = IdleReq]
    /\ resp' = Response("rollback", req[r].tid, "error", FALSE)
    /\ regUnchanged /\ poolUnchanged /\ monUnchanged
    /\ UNCHANGED sessVars

\* ------------------------------------------------------------ execute_commit
\* finalize(id, commit), steps 1-3: lookup, then one check-and-set on released
CommitStart(r, id) ==
    /\ Free(r)
    /\ \/ /\ ~hasTransaction(id)
          /\ resp' = Response("commit", id, "NotFound", FALSE)
          /\ UNCHANGED req
          /\ regUnchanged
       \/ /\ hasTransaction(id)
          /\ released[id]
          /\ registry' = removeTransaction(id)
          /\ resp' = Response("commit", id, "AlreadyReleased", FALSE)
          /\ UNCHANGED <<req, released, nextId, origin, finalizedOk>>
       \/ /\ hasTransaction(id)
          /\ ~released[id]
          /\ released' = [released EXCEPT ![id] = TRUE]
          /\ req' = [req EXCEPT ![r] = NewReq("commit", id, "awaitCommit")]
          /\ resp' = NoResp
          /\ UNCHANGED <<registry, nextId, origin, finalizedOk>>
    /\ poolUnchanged /\ monUnchanged
    /\ UNCHANGED sessVars

\* finalize(id, commit), steps 3-4: COMMIT resolved; release, remove, confirm
CommitResume(r) ==
    /\ req[r].pc = "awaitCommit"
    /\ ReleaseClient(req[r].tid)
    /\ registry' = removeTransaction(req[r].tid)
    /\ finalizedOk' = [finalizedOk EXCEPT ![req[r].tid] = @ + 1]
    /\ req' = [req EXCEPT ![r] = IdleReq]
    /\ resp' = Response("commit", req[r].tid, "ok", TRUE)
    /\ UNCHANGED <<released, nextId, origin>>
    /\ monUnchanged
    /\ UNCHANGED sessVars

\* lines 93-96: COMMIT rejected inside handleExecuteCommit; the catch answers
\* with the message.  What the handler does with the entry before it throws
\* is not laid down: it leaves it as it is, or releases and removes it
CommitFailed(r) ==
    /\ req[r].pc = "awaitCommit"
    /\ req' = [req EXCEPT ![r] = IdleReq]
    /\ resp' = Response("commit", req[r].tid, "error", FALSE)
    /\ \/ UNCHANGED <<registry, connHeld, poolIdle, releaseCalls>>
       \/ /\ ReleaseClient(req[r].tid)
          /\ registry' = removeTransaction(req[r].tid)
    /\ UNCHANGED <<released, nextId, origin, finalizedOk>>
    /\ monUnchanged
    /\ UNCHANGED sessVars

\* ------------------------------------------------------ Transaction Monitor
\* the manager built without its enable flag: the monitor never starts
transactionManagerNoMonitor ==
    [timeoutMs |-> transactionTimeoutMs, intervalMs |-> monitorIntervalMs,
     monitor |-> FALSE]

\* new TransactionManager(timeoutMs, monitorIntervalMs, enableTransactionMonitor)
transactionManager ==
    [timeoutMs |-> transactionTimeoutMs, intervalMs |-> monitorIntervalMs,
     monitor |-> enableTransactionMonitor]

\* now - createdAt exceeds the timeout
Expired(id) == registry[id] > transactionManager.timeoutMs

\* the interval timer fires: enumerate the entries whose age exceeds the timeout
MonitorWake ==
    /\ transactionManager.monitor
    /\ untilWake = 0
    /\ sweep = {} /\ monInflight = 0
    /\ sweep' = {id \in DOMAIN registry : Expired(id)}
    /\ untilWake' = transactionManager.intervalMs
    /\ resp' = NoResp
    /\ UNCHANGED <<req, enableTransactionMonitor, monInflight, monitorLog>>
    /\ regUnchanged /\ poolUnchanged
    /\ UNCHANGED sessVars

\* finalize-as-rollback on one enumerated entry: the check-and-set on released
MonitorExpire(id) ==
    /\ id \in sweep
    /\ monInflight = 0
    /\ sweep' = sweep \ {id}
    /\ \/ /\ ~hasTransaction(id)
          /\ UNCHANGED <<registry, released, monInflight>>
       \/ /\ hasTransaction(id)
          /\ released[id]
          /\ registry' = removeTransaction(id)
          /\ UNCHANGED <<released, monInflight>>
       \/ /\ hasTransaction(id)
          /\ ~released[id]
          /\ released' = [released EXCEPT ![id] = TRUE]
          /\ monInflight' = id
          /\ UNCHANGED registry
    /\ resp' = NoResp
    /\ UNCHANGED <<nextId, origin, finalizedOk, req, enableTransactionMonitor,
                   untilWake, monitorLog>>
    /\ poolUnchanged
    /\ UNCHANGED sessVars

\* the forced ROLLBACK resolved: release, remove, emit the expiry event
MonitorFinish ==
    /\ monInflight # 0
    /\ ReleaseClient(monInflight)
    /\ registry' = removeTransaction(monInflight)
    /\ monitorLog' = monitorLog \cup {monInflight}
    /\ monInflight' = 0
    /\ resp' = NoResp
    /\ UNCHANGED <<released, nextId, origin, finalizedOk, req, enableTransactionMonitor, untilWake, sweep>>
    /\ UNCHANGED sessVars

\* the clock advances by one unit; a due wake and its sweep run first
Tick ==
    /\ transactionManager.monitor => untilWake > 0
    /\ sweep = {} /\ monInflight = 0
    /\ transactionManager.monitor \/ \E id \in DOMAIN registry : registry[id] < AgeCap
    /\ registry' = [id \in DOMAIN registry |->
                      IF registry[id] < AgeCap THEN registry[id] + 1 ELSE registry[id]]
    /\ untilWake' = IF transactionManager.monitor THEN untilWake - 1 ELSE untilWake
    /\ resp' = NoResp
    /\ UNCHANGED <<released, nextId, origin, finalizedOk, req, enableTransactionMonitor, sweep, monInflight, monitorLog>>
    /\ poolUnchanged
    /\ UNCHANGED sessVars

\* ======================================================= session multiplexer
Https == 1..MaxHttp
BogusSid == MaxSess + 1    \* an id the server never generated
EmptySid == MaxSess + 2    \* the header sent with an empty value: ""

\* the header's value in a boolean position: sessionId && ..., !sessionId
Truthy(sid) == sid \notin {NoSid, EmptySid}

\* req.body as far as the route and the transport look at it
Body(m, pa, pv, j) ==
    [method |-> m, params |-> pa, protocolVersion |-> pv, jsonrpc |-> j]

Bodies ==
    {Body("initialize", "object", "string", TRUE),
     Body("initialize", "object", "string", FALSE),
     Body("initialize", "object", "absent", TRUE),
     Body("tools/call", "object", "absent", TRUE)}

NoBody == Body("absent", "absent", "absent", FALSE)

\* line 182: the route's own test for an initialization request
isInitRequest(b) ==
    /\ b.method = "initialize"
    /\ b.params = "object"
    /\ b.protocolVersion = "string"

\* the transport's test: a well-formed JSON-RPC initialize message
TransportSeesInit(b) == b.jsonrpc /\ isInitRequest(b)

IdleHttp == [verb |-> "none", sid |-> NoSid, body |-> NoBody, pc |-> "idle",
             respSid |-> NoSid, to |-> 0]

\* a request in the hands of a handler; rs: the mcp-session-id set on res
NewHttp(v, sid, b, p, rs, t) ==
    [verb |-> v, sid |-> sid, body |-> b, pc |-> p, respSid |-> rs, to |-> t]

NoHresp == [verb |-> "none", sid |-> NoSid, body |-> NoBody, status |-> 0,
            respSid |-> NoSid, to |-> 0]

\* the response as sent: status, the mcp-session-id header, the pairing that
\* handled the request (0: none)
HttpResponse(v, sid, b, st, rs, t) ==
    [verb |-> v, sid |-> sid, body |-> b, status |-> st, respSid |-> rs, to |-> t]

\* slot h takes the next request: the lowest slot with no request in flight
FreeHttp(h) ==
    /\ http[h].pc = "idle"
    /\ \A g \in Https : g < h => http[g].pc # "idle"

\* the session ids a client can put in its header
SidInputs == (0..(nextSid - 1)) \cup {BogusSid, EmptySid}

\* line 185, line 233: sessionId && transports[sessionId]
Known(sid) == Truthy(sid) /\ sid \in DOMAIN transports

\* --------------------------------------------------------- app.post("/mcp")
\* lines 185-188, 227: a known session id; the request goes to its transport
PostReuse(h, sid, b) ==
    /\ Known(sid)
    /\ http' = [http EXCEPT ![h] =
                  NewHttp("POST", sid, b, "handling", NoSid, transports[sid])]
    /\ hresp' = NoHresp
    /\ UNCHANGED <<transports, pairings, nextSid>>

\* the initialization branch taken for any id that is not registered
PostInitAnyUnknown(h, sid, b) ==
    /\ ~Known(sid)
    /\ isInitRequest(b)
    /\ nextSid <= MaxSess
    /\ nextSid' = nextSid + 1
    /\ pairings' = Append(pairings, [generator |-> nextSid, sessionId |-> NoSid,
                                     closes |-> 0])
    /\ http' = [http EXCEPT ![h] =
                  NewHttp("POST", sid, b, "connecting", nextSid, Len(pairings) + 1)]
    /\ hresp' = NoHresp
    /\ UNCHANGED <<transports>>

\* lines 189-212: no session id and an initialization request; a new id set
\* on the response, a new transport with its callbacks, a new server, then
\* await server.connect
PostInit(h, sid, b) ==
    /\ ~Known(sid)
    /\ ~Truthy(sid) /\ isInitRequest(b)
    /\ nextSid <= MaxSess
    /\ nextSid' = nextSid + 1
    /\ pairings' = Append(pairings, [generator |-> nextSid, sessionId |-> NoSid,
                                     closes |-> 0])
    /\ http' = [http EXCEPT ![h] =
                  NewHttp("POST", sid, b, "connecting", nextSid, Len(pairings) + 1)]
    /\ hresp' = NoHresp
    /\ UNCHANGED <<transports>>

\* the route opening a session for any request without a known id
PostRejectOpensSession(h, sid, b) ==
    /\ ~Known(sid)
    /\ ~(~Truthy(sid) /\ isInitRequest(b))
    /\ nextSid <= MaxSess
    /\ nextSid' = nextSid + 1
    /\ pairings' = Append(pairings, [generator |-> nextSid, sessionId |-> nextSid,
                                     closes |-> 0])
    /\ transports' = (nextSid :> (Len(pairings) + 1)) @@ transports
    /\ hresp' = HttpResponse("POST", sid, b, 200, nextSid, Len(pairings) + 1)
    /\ UNCHANGED http

\* lines 214-225: anything else is answered 400
PostReject(h, sid, b) ==
    /\ ~Known(sid)
    /\ ~(~Truthy(sid) /\ isInitRequest(b))
    /\ hresp' = HttpResponse("POST", sid, b, 400, NoSid, 0)
    /\ UNCHANGED <<transports, pairings, nextSid, http>>

Post(h, sid, b) ==
    /\ Running
    /\ FreeHttp(h)
    /\ (PostReuse(h, sid, b) \/ PostInit(h, sid, b) \/ PostReject(h, sid, b))
    /\ UNCHANGED process
    /\ UNCHANGED txVars

\* lines 212-227: server.connect resolved; the new transport gets the request
PostConnected(h) ==
    /\ Running
    /\ http[h].pc = "connecting"
    /\ http' = [http EXCEPT ![h].pc = "handling"]
    /\ hresp' = NoHresp
    /\ UNCHANGED <<transports, pairings, nextSid, process>>
    /\ UNCHANGED txVars

\* ------------------------------- handleSessionRequest (GET and DELETE /mcp)
\* the handler building a transport per request instead of looking one up
SessionRouteFresh(h, v, sid) ==
    /\ Known(sid)
    /\ Len(pairings) < MaxSess
    /\ pairings' = Append(pairings, [generator |-> sid, sessionId |-> NoSid,
                                     closes |-> 0])
    /\ http' = [http EXCEPT ![h] =
                  NewHttp(v, sid, NoBody, "handling", NoSid, Len(pairings) + 1)]
    /\ hresp' = NoHresp
    /\ UNCHANGED <<transports, nextSid>>

\* lines 238-239: the request goes to the transport registered for the id
SessionRoute(h, v, sid) ==
    /\ Known(sid)
    /\ http' = [http EXCEPT ![h] =
                  NewHttp(v, sid, NoBody, "handling", NoSid, transports[sid])]
    /\ hresp' = NoHresp
    /\ UNCHANGED <<transports, pairings, nextSid>>

\* lines 233-236: 400 "Invalid or missing session ID"
SessionReject(h, v, sid) ==
    /\ ~Known(sid)
    /\ hresp' = HttpResponse(v, sid, NoBody, 400, NoSid, 0)
    /\ UNCHANGED <<transports, pairings, nextSid, http>>

handleSessionRequest(h, v, sid) ==
    /\ Running
    /\ FreeHttp(h)
    /\ (SessionRoute(h, v, sid) \/ SessionReject(h, v, sid))
    /\ UNCHANGED process
    /\ UNCHANGED txVars

\* ------------------------------------------------ the transport's callbacks
\* lines 197-200: onsessioninitialized(id) registers the transport
onsessioninitialized(id, p) == transports' = (id :> p) @@ transports

\* a close handler that leaves the session map alone
oncloseKeepsMapping(p) == transports' = transports

\* a close handler that empties the session map
oncloseDropsAll(p) == transports' = <<>>

\* lines 203-208: onclose removes the mapping of transport.sessionId, if set
onclose(p) ==
    transports' = IF pairings[p].sessionId # NoSid
                  THEN [k \in DOMAIN transports \ {pairings[p].sessionId} |-> transports[k]]
                  ELSE transports

\* the response leaves with the status the transport chose and the headers
\* already set on res
Answer(h, st, rs) ==
    /\ hresp' = HttpResponse(http[h].verb, http[h].sid, http[h].body, st, rs, http[h].to)
    /\ http' = [http EXCEPT ![h] = IdleHttp]

\* the transport works on a request it was given.  An initialization message
\* it accepts sets its session id from the generator and calls
\* onsessioninitialized; a DELETE closes it; a message it does not accept, an
\* initialization of an initialized transport and a call on an uninitialized
\* one are answered with an error.
TransportHandle(h) ==
    /\ Running
    /\ http[h].pc = "handling"
    /\ LET p == http[h].to
           b == http[h].body
       IN \/ /\ http[h].verb = "POST" /\ TransportSeesInit(b)
             /\ pairings[p].sessionId = NoSid
             /\ pairings' = [pairings EXCEPT ![p].sessionId = pairings[p].generator]
             /\ onsessioninitialized(pairings[p].generator, p)
             /\ Answer(h, 200, pairings[p].generator)
          \/ /\ http[h].verb = "POST"
             /\ \/ ~b.jsonrpc
                \/ TransportSeesInit(b) /\ pairings[p].sessionId # NoSid
                \/ b.jsonrpc /\ ~TransportSeesInit(b) /\ pairings[p].sessionId = NoSid
             /\ Answer(h, 400, http[h].respSid)
             /\ UNCHANGED <<transports, pairings>>
          \/ /\ \/ http[h].verb = "GET"
                \/ /\ http[h].verb = "POST" /\ b.jsonrpc /\ ~TransportSeesInit(b)
                   /\ pairings[p].sessionId # NoSid
             /\ Answer(h, 200, http[h].respSid)
             /\ UNCHANGED <<transports, pairings>>
          \/ /\ http[h].verb = "DELETE"
             /\ pairings' = [pairings EXCEPT ![p].closes =
                                IF @ < MaxClose THEN @ + 1 ELSE @]
             /\ onclose(p)
             /\ Answer(h, 200, http[h].respSid)
    /\ UNCHANGED <<nextSid, process>>
    /\ UNCHANGED txVars

\* a promise awaited by a route handler rejected.  The handlers have no
\* try/catch (lines 172-229, 231-240), so the rejection leaves the async
\* handler: a router that ignores the handler's promise leaves it unhandled,
\* which ends the process (Node 20, the Dockerfile's runtime); a router that
\* forwards it to its default error handler answers 500 with the headers
\* already set on res
Escapes(h) ==
    \/ /\ process' = "terminated"
       /\ hresp' = NoHresp
       /\ UNCHANGED http
    \/ /\ Answer(h, 500, http[h].respSid)
       /\ UNCHANGED process

\* line 212: server.connect(transport) rejects
PostConnectFailed(h) ==
    /\ Running
    /\ http[h].pc = "connecting"
    /\ Escapes(h)
    /\ UNCHANGED <<transports, pairings, nextSid>>
    /\ UNCHANGED txVars

\* lines 227, 239: transport.handleRequest rejects
HandleRequestFailed(h) ==
    /\ Running
    /\ http[h].pc = "handling"
    /\ Escapes(h)
    /\ UNCHANGED <<transports, pairings, nextSid>>
    /\ UNCHANGED txVars

\* the transport of an established session signals closure on its own
\* (protocol-level teardown)
TransportClose(p) ==
    /\ Running
    /\ p \in 1..Len(pairings)
    /\ pairings[p].sessionId # NoSid
    /\ pairings[p].closes < MaxClose
    /\ pairings' = [pairings EXCEPT ![p].closes = @ + 1]
    /\ onclose(p)
    /\ hresp' = NoHresp
    /\ UNCHANGED <<nextSid, http, process>>
    /\ UNCHANGED txVars

\* ------------------------------------------------------------ specification
InitTx ==
    /\ registry = <<>>
    /\ released = [id \in TxIds |-> FALSE]
    /\ nextId = 1
    /\ origin = [id \in TxIds |-> NoSid]
    /\ connHeld = {}
    /\ poolIdle = maxConnections
    /\ releaseCalls = [id \in TxIds |-> 0]
    /\ req = [r \in Reqs |-> IdleReq]
    /\ resp = NoResp
    /\ finalizedOk = [id \in TxIds |-> 0]
    /\ enableTransactionMonitor \in BOOLEAN
    /\ untilWake = transactionManager.intervalMs
    /\ sweep = {}
    /\ monInflight = 0
    /\ monitorLog = {}

InitSess ==
    /\ transports = <<>>
    /\ pairings = <<>>
    /\ nextSid = 1
    /\ http = [h \in Https |-> IdleHttp]
    /\ hresp = NoHresp
    /\ process = "running"

Init == InitTx /\ InitSess

NextTx ==
    \/ \E r \in Reqs : DmlGate(r)
    \/ \E r \in Reqs : DmlAcquired(r)
    \/ \E r \in Reqs : DmlAcquireFailed(r)
    \/ \E r \in Reqs : DmlExecuted(r)
    \/ \E r \in Reqs : DmlFailed(r)
    \/ \E r \in Reqs, id \in TxIds : RollbackStart(r, id)
    \/ \E r \in Reqs : RollbackResume(r)
    \/ \E r \in Reqs : RollbackFailed(r)
    \/ \E r \in Reqs, id \in TxIds : CommitStart(r, id)
    \/ \E r \in Reqs : CommitResume(r)
    \/ \E r \in Reqs : CommitFailed(r)
    \/ \E r \in Reqs : ReadStart(r)
    \/ \E r \in Reqs : ReadAcquired(r)
    \/ \E r \in Reqs : ReadAcquireFailed(r)
    \/ \E r \in Reqs : ReadFinished(r)
    \/ MonitorWake
    \/ \E id \in TxIds : MonitorExpire(id)
    \/ MonitorFinish
    \/ Tick

NextSess ==
    \/ \E h \in Https, sid \in SidInputs, b \in Bodies : Post(h, sid, b)
    \/ \E h \in Https : PostConnected(h)
    \/ \E h \in Https, v \in {"GET", "DELETE"}, sid \in SidInputs :
          handleSessionRequest(h, v, sid)
    \/ \E h \in Https : TransportHandle(h)
    \/ \E p \in 1..MaxSess : TransportClose(p)
    \/ \E h \in Https : PostConnectFailed(h)
    \/ \E h \in Https : HandleRequestFailed(h)

SpecTx == Init /\ [][NextTx]_vars

\* requests that do not overlap: a call is taken only when none is in flight
NoCallInFlight == \A r \in Reqs : req[r].pc = "idle"

SeqDml(r) == NoCallInFlight /\ DmlGate(r)

SeqRollback(r, id) == NoCallInFlight /\ RollbackStart(r, id)

SeqCommit(r, id) == NoCallInFlight /\ CommitStart(r, id)

NextSeq ==
    \/ \E r \in Reqs : SeqDml(r)
    \/ \E r \in Reqs : DmlAcquired(r)
    \/ \E r \in Reqs : DmlAcquireFailed(r)
    \/ \E r \in Reqs : DmlExecuted(r)
    \/ \E r \in Reqs : DmlFailed(r)
    \/ \E r \in Reqs, id \in TxIds : SeqRollback(r, id)
    \/ \E r \in Reqs : RollbackResume(r)
    \/ \E r \in Reqs : RollbackFailed(r)
    \/ \E r \in Reqs, id \in TxIds : SeqCommit(r, id)
    \/ \E r \in Reqs : CommitResume(r)
    \/ \E r \in Reqs : CommitFailed(r)
    \/ Tick

\* one request at a time, the monitor switched off
InitSeq == Init /\ ~enableTransactionMonitor

SpecSeq == InitSeq /\ [][NextSeq]_vars

\* tool calls arriving through sessions: the call in slot r is run while the
\* request in slot r, a tools/call POST of an initialized session, is with
\* its transport, and the transport answers after the call has returned
Carried(r) ==
    /\ r \in DOMAIN http
    /\ http[r].pc = "handling" /\ http[r].verb = "POST"
    /\ http[r].body.method = "tools/call"
    /\ pairings[http[r].to].sessionId # NoSid

NoRequestInFlight == \A h \in Https : http[h].pc = "idle"

ViaPost(h, sid, b) == NoRequestInFlight /\ Post(h, sid, b)

ViaSession(h, v, sid) == NoRequestInFlight /\ handleSessionRequest(h, v, sid)

ViaHandle(h) == (h \in Reqs => req[h].pc = "idle") /\ TransportHandle(h)

ViaDml(r) == Carried(r) /\ DmlGate(r)

ViaRollback(r, id) == Carried(r) /\ RollbackStart(r, id)

ViaCommit(r, id) == Carried(r) /\ CommitStart(r, id)

NextVia ==
    \/ \E h \in Https, sid \in SidInputs, b \in Bodies : ViaPost(h, sid, b)
    \/ \E h \in Https : PostConnected(h)
    \/ \E h \in Https, v \in {"GET", "DELETE"}, sid \in SidInputs :
          ViaSession(h, v, sid)
    \/ \E h \in Https : ViaHandle(h)
    \/ \E p \in 1..MaxSess : TransportClose(p)
    \/ \E r \in Reqs : ViaDml(r)
    \/ \E r \in Reqs : DmlAcquired(r)
    \/ \E r \in Reqs : DmlAcquireFailed(r)
    \/ \E r \in Reqs : DmlExecuted(r)
    \/ \E r \in Reqs : DmlFailed(r)
    \/ \E r \in Reqs, id \in TxIds : ViaRollback(r, id)
    \/ \E r \in Reqs : RollbackResume(r)
    \/ \E r \in Reqs : RollbackFailed(r)
    \/ \E r \in Reqs, id \in TxIds : ViaCommit(r, id)
    \/ \E r \in Reqs : CommitResume(r)
    \/ \E r \in Reqs : CommitFailed(r)

\* sessions and the tool calls they carry, one request at a time, the
\* monitor switched off
InitVia == Init /\ ~enableTransactionMonitor

SpecVia == InitVia /\ [][NextVia]_vars

\* the session side alone, the transaction side at rest
InitSessOnly == Init /\ ~enableTransactionMonitor

SpecSess == InitSessOnly /\ [][NextSess]_vars

\* fairness: the clock advances and the monitor's timer callback and its
\* awaited statement are run by the event loop
SpecTxFair ==
    /\ Init /\ [][NextTx]_vars
    /\ WF_vars(Tick) /\ WF_vars(MonitorWake) /\ WF_vars(MonitorFinish)
    /\ \A id \in TxIds : WF_vars(MonitorExpire(id))

\* ================================================================== claims
ExplicitOk(id) == finalizedOk[id] > 0

\* C1: the request path and the monitor's forced expiry never both finalize
\* the same transaction: no id has both a forced-expiry event and a success
\* confirmation of an explicit commit / rollback.
C1_RequestAndMonitorNeverBothSucceed ==
    \A id \in TxIds : ~(id \in monitorLog /\ ExplicitOk(id))

\* C2: the connection of every transaction is released to the pool exactly
\* once: never twice, and once (with released set) as soon as a finalization
\* of it has succeeded.
C2_ReleasedExactlyOnce ==
    \A id \in TxIds :
        /\ releaseCalls[id] <= 1
        /\ (ExplicitOk(id) \/ id \in monitorLog) => (releaseCalls[id] = 1 /\ released[id])

\* C3: the number of transactions in the registry never exceeds
\* maxConcurrentTransactions.
C3_CountNeverExceedsMax == transactionCount <= maxConcurrentTransactions

\* C5: of the explicit finalize requests on one transaction id at most one
\* returns a success confirmation.
C5_AtMostOneExplicitSuccess == \A id \in TxIds : finalizedOk[id] <= 1

\* a step in which a call of one of the kinds ks is taken past its handler's
\* first tests, to an await
Awaited(ks) == \E r \in Reqs : req[r].pc = "idle" /\ req'[r].kind \in ks

\* a step in which a call of one of the kinds ks is answered at once, with
\* no await
AnsweredAtOnce(ks) == resp' # NoResp /\ req' = req /\ resp'.kind \in ks

\* C4: a write request that meets the gate with the registry at or above
\* maxConcurrentTransactions is not let through, and the step that answers
\* CapacityExceeded never touches the pool (no acquire, no release) and
\* leaves the registry and its count unchanged.
C4_RejectionTouchesNothing ==
    [][/\ Awaited({"dml"}) => transactionCount < maxConcurrentTransactions
       /\ (AnsweredAtOnce({"dml"}) /\ resp'.result = "CapacityExceeded")
             => /\ transactionCount >= maxConcurrentTransactions
                /\ ~resp'.pool
                /\ poolIdle' = poolIdle /\ connHeld' = connHeld
                /\ releaseCalls' = releaseCalls
                /\ registry' = registry /\ released' = released]_vars

C4_Witness ==
    /\ resp.kind = "dml" /\ resp.result = "CapacityExceeded"
    /\ transactionCount >= maxConcurrentTransactions
    /\ poolIdle = maxConnections - 1

\* the id's commit or rollback has completed successfully, or the id was
\* never registered
Gone(id) == ExplicitOk(id) \/ id >= nextId

\* C6: a commit or rollback request on an id whose commit or rollback has
\* already completed successfully, or on an id that was never registered,
\* is answered NotFound at once and changes neither the registry nor the pool.
C6_FinalizedIdIsNotFound ==
    [][/\ \A r \in Reqs :
            (req[r].pc = "idle" /\ req'[r].kind \in {"commit", "rollback"})
                => ~Gone(req'[r].tid)
       /\ (AnsweredAtOnce({"commit", "rollback"}) /\ Gone(resp'.tid))
             => /\ resp'.result = "NotFound"
                /\ registry' = registry /\ released' = released
                /\ poolIdle' = poolIdle /\ connHeld' = connHeld
                /\ releaseCalls' = releaseCalls]_vars

C6_Witness ==
    /\ resp.kind = "rollback" /\ resp.result = "NotFound"
    /\ ExplicitOk(resp.tid)
    /\ resp.tid \notin DOMAIN registry

\* calls holding a connection that is not bound to a transaction: a write
\* before it registers, a read while its statement runs
Executing == {r \in Reqs : req[r].pc \in {"executing", "reading"}}

\* C7 (state part): with the monitor enabled no transaction stays registered
\* for more than one monitor interval past its expiry; a force-expired
\* transaction is out of the registry and its connection is back in the pool,
\* given back exactly once when no explicit finalization also succeeded.
C7_ExpiredWithinOneInterval ==
    enableTransactionMonitor =>
        /\ poolIdle = maxConnections - Cardinality(connHeld) - Cardinality(Executing)
        /\ \A id \in TxIds :
            /\ id \in DOMAIN registry
                  => registry[id] <= transactionTimeoutMs + monitorIntervalMs
            /\ id \in monitorLog =>
                  /\ id \notin DOMAIN registry /\ id \notin connHeld
                  /\ ~ExplicitOk(id) => releaseCalls[id] = 1

\* C7 (step part): a commit of a force-expired id fails with NotFound.
C7_CommitAfterExpiry ==
    /\ \A r \in Reqs :
          (req[r].pc = "idle" /\ req'[r].kind = "commit") => req'[r].tid \notin monitorLog
    /\ (AnsweredAtOnce({"commit"}) /\ resp'.tid \in monitorLog)
          => resp'.result = "NotFound"

EndsHttp(h) == http[h].pc = "handling" /\ http'[h].pc = "idle"

\* a step in which slot h takes a request that a handler will await on
TakesHttp(h) == http[h].pc = "idle" /\ http'[h].pc # "idle"

\* a step in which a route answers a request itself, at once
RouteAnswers == hresp' # NoHresp /\ http' = http

\* slot h's request went through the initialization branch (lines 189-213)
InitBranch(h) ==
    http[h].verb = "POST" /\ ~Truthy(http[h].sid) /\ isInitRequest(http[h].body)

\* C8: when the handling of a POST without session id that the route took
\* for an initialization request ends with the transport's own answer, the
\* session id its response carries is a key of the session map, mapped to
\* the pairing built for that request.
C8_HandedIdIsRegistered ==
    [][\A h \in Https :
         (EndsHttp(h) /\ InitBranch(h) /\ hresp'.status \in {200, 400}
            /\ hresp'.respSid # NoSid)
            => /\ hresp'.respSid \in DOMAIN transports'
               /\ transports'[hresp'.respSid] = http[h].to]_vars

\* C9: a request with a known session id is never turned away; it is handed
\* to the pairing registered for that id at initialization; routing builds no
\* pairing and leaves the session map as it is, no step ever re-maps an id to
\* another pairing, and a well-formed call routed this way finds the handler
\* initialized.
C9_RoutedToRegisteredPairing ==
    [][/\ RouteAnswers => ~Known(hresp'.sid)
       /\ \A h \in Https :
            /\ (TakesHttp(h) /\ Known(http'[h].sid))
                  => /\ http'[h].pc = "handling"
                     /\ http'[h].to = transports[http'[h].sid]
                     /\ pairings[http'[h].to].generator = http'[h].sid
                     /\ pairings[http'[h].to].sessionId = http'[h].sid
                     /\ pairings' = pairings /\ transports' = transports
            /\ (EndsHttp(h) /\ Truthy(http[h].sid) /\ http[h].verb = "POST"
                  /\ http[h].body.jsonrpc /\ ~TransportSeesInit(http[h].body))
                  => hresp'.status # 400
       /\ \A sid \in DOMAIN transports \cap DOMAIN transports' :
            transports'[sid] = transports[sid]]_vars

\* one request of a session answered by its pairing, the next one in it
C9_Witness ==
    \E h \in Https :
        /\ hresp.verb = "POST" /\ hresp.status = 200 /\ hresp.sid # NoSid
        /\ http[h].pc = "handling" /\ http[h].verb = "GET"
        /\ http[h].sid = hresp.sid /\ http[h].to = hresp.to
        /\ Known(hresp.sid) /\ transports[hresp.sid] = hresp.to

Closes(p) ==
    /\ p \in 1..Len(pairings)
    /\ pairings'[p].closes > pairings[p].closes

\* the session map without the key sid
WithoutSession(sid) == [k \in DOMAIN transports \ {sid} |-> transports[k]]

\* C11 (state part): every session id maps to at most one live pairing: a
\* key of the session map is the session id of the one pairing it maps to,
\* and no two pairings ever carry the same session id.
C11_OnePairingPerSession ==
    /\ \A sid \in DOMAIN transports :
          /\ transports[sid] \in 1..Len(pairings)
          /\ pairings[transports[sid]].sessionId = sid
    /\ \A p, q \in 1..Len(pairings) :
          (p # q /\ pairings[p].sessionId # NoSid)
              => pairings[p].sessionId # pairings[q].sessionId

\* C11: a closure signal of a session's transport removes the mapping of
\* that session id and no other; a repeated signal changes nothing in the
\* session map; each session id maps to at most one live pairing.
C11_ClosureRemovesOwnMapping ==
    /\ []C11_OnePairingPerSession
    /\ [][\A p \in 1..MaxSess :
            Closes(p) =>
                /\ transports' = WithoutSession(pairings[p].sessionId)
                /\ pairings[p].closes > 0 => transports' = transports]_vars

\* a transport has signalled closure twice while another session is live
C11_Witness ==
    \E p, q \in 1..Len(pairings) :
        /\ p # q
        /\ pairings[p].closes = 2
        /\ pairings[p].sessionId \notin DOMAIN transports
        /\ pairings[q].sessionId \in DOMAIN transports
        /\ transports[pairings[q].sessionId] = q
\* ----------------------------------------------------------- error boundary
\* a step that ends the handling of a tool call that was waiting at an await
EndsCall(r) == req[r].pc # "idle" /\ req'[r].pc = "idle"

\* a step that ends the handling of an HTTP request that was waiting at an
\* await
EndsRequest(h) == http[h].pc # "idle" /\ http'[h].pc = "idle"

\* the responses the route handlers and the transport write themselves
\* (JSON-RPC results and JSON-RPC / plain 400 errors)
Structured(st) == st \in {200, 400}

\* C12: the process keeps running whatever a request does; every tool call
\* that ends is answered with a result or a structured error, and every HTTP
\* request that ends is answered by the route handler or the transport.
C12_ErrorsBecomeResponses ==
    /\ [](process = "running")
    /\ [][/\ \A r \in Reqs : EndsCall(r) => resp'.kind = req[r].kind
          /\ \A h \in Https : EndsRequest(h) => Structured(hresp'.status)]_vars
\* ------------------------------------------------------- capacity regained
\* C13: with requests that do not overlap, a write request is rejected with
\* CapacityExceeded exactly when the count is at maxConcurrentTransactions,
\* and then the registry stays as it is; a write request below the ceiling
\* is let through the gate; a commit or rollback that succeeds removes its
\* entry and lowers the count by exactly one; commit and rollback are never
\* answered CapacityExceeded and are taken at any count.
C13_CapacityRegained ==
    [][/\ AnsweredAtOnce({"dml"})
             => /\ resp'.result = "CapacityExceeded"
                /\ transactionCount = maxConcurrentTransactions
                /\ registry' = registry
       /\ Awaited({"dml"}) => transactionCount < maxConcurrentTransactions
       /\ (resp'.kind \in {"commit", "rollback"} /\ resp'.result = "ok")
             => /\ transactionCount' = transactionCount - 1
                /\ registry' = removeTransaction(resp'.tid)
       /\ resp'.kind \in {"commit", "rollback"}
             => resp'.result # "CapacityExceeded"]_vars

\* a write admitted after a finalization brought the count below the ceiling
C13_Witness ==
    /\ resp.kind = "dml" /\ resp.result = "ok" /\ resp.tid = 2
    /\ ExplicitOk(1)
    /\ transactionCount = maxConcurrentTransactions
\* ------------------------------------------------------------------- reads
\* a step of a read-only or maintenance call
ReadStep ==
    \E r \in Reqs :
        req'[r] # req[r] /\ (req[r].kind = "read" \/ req'[r].kind = "read")

\* C14 (state part): a read-only or maintenance call is taken in every state
\* in which the server can take a call, whatever the registry holds.
C14_ReadAlwaysTaken ==
    (\E r \in Reqs : req[r].pc = "idle") => ENABLED (\E r \in Reqs : ReadStart(r))

\* C14: read-only and maintenance calls are taken in every state, are never
\* answered CapacityExceeded, and none of their steps changes the registry,
\* the released flags or the identifiers.
C14_ReadsBypassRegistry ==
    /\ []C14_ReadAlwaysTaken
    /\ [][/\ ReadStep => /\ registry' = registry /\ released' = released
                         /\ nextId' = nextId /\ connHeld' = connHeld
          /\ resp'.kind = "read" => resp'.result # "CapacityExceeded"]_vars

\* a read answered while the registry is at the ceiling
C14_Witness ==
    /\ resp.kind = "read" /\ resp.result = "ok"
    /\ transactionCount >= maxConcurrentTransactions
\* --------------------------------------------------------- already released
\* C15: a rollback request whose id is in the registry with released set is
\* answered AlreadyReleased at once: no statement is sent and awaited, the
\* entry is removed from the registry, and the connection is not released
\* again (no release call, pool and held connections as before).
C15_AlreadyReleasedCleansUp ==
    [][/\ \A r \in Reqs :
            (req[r].pc = "idle" /\ req'[r].kind = "rollback")
                => ~(hasTransaction(req'[r].tid) /\ released[req'[r].tid])
       /\ (AnsweredAtOnce({"rollback"}) /\ hasTransaction(resp'.tid)
             /\ released[resp'.tid])
             => /\ resp'.result = "AlreadyReleased"
                /\ registry' = removeTransaction(resp'.tid)
                /\ released' = released
                /\ releaseCalls' = releaseCalls
                /\ poolIdle' = poolIdle /\ connHeld' = connHeld]_vars

\* the released entry is gone, its connection still with its finalizer
C15_Witness ==
    /\ resp.kind = "rollback" /\ resp.result = "AlreadyReleased"
    /\ ~hasTransaction(resp.tid)
    /\ released[resp.tid]
    /\ releaseCalls[resp.tid] = 0
    /\ resp.tid \in connHeld
\* ------------------------------------------------------- removal is terminal
\* the mapping of session id sid has been removed by its transport's closure
Removed(sid) ==
    /\ sid # NoSid
    /\ \E p \in 1..Len(pairings) :
          pairings[p].sessionId = sid /\ pairings[p].closes > 0

\* C16 (state part): a session id whose mapping was removed by closure is
\* not a key of the session map.
C16_RemovedStaysRemoved ==
    \A sid \in 1..MaxSess : Removed(sid) => sid \notin DOMAIN transports

\* C16: once the mapping of a session id has been removed by transport
\* closure the id is never a key of the session map again, no later request
\* carrying it is handed to a transport, and each is answered 400 at once
\* with the session map and the pairings untouched.
C16_RemovalIsTerminal ==
    /\ []C16_RemovedStaysRemoved
    /\ [][/\ \A h \in Https : TakesHttp(h) => ~Removed(http'[h].sid)
          /\ (RouteAnswers /\ Removed(hresp'.sid))
                => /\ hresp'.status = 400 /\ hresp'.to = 0
                   /\ transports' = transports /\ pairings' = pairings]_vars

\* a request carrying the id of a closed session, turned away
C16_Witness ==
    /\ Removed(hresp.sid)
    /\ hresp.status = 400 /\ hresp.to = 0
    /\ hresp.sid \notin DOMAIN transports
\* ---------------------------------------------------------- failed rollback
\* the transaction still waits for a finalizer: registered, not released,
\* its connection checked out
Pending(id) == hasTransaction(id) /\ ~released[id] /\ id \in connHeld

\* nothing of the transactions or the pool changes in this step
TxUntouched ==
    /\ registry' = registry /\ released' = released
    /\ connHeld' = connHeld /\ poolIdle' = poolIdle
    /\ releaseCalls' = releaseCalls /\ finalizedOk' = finalizedOk

\* C17: a rollback call whose ROLLBACK statement fails is answered with an
\* error, and neither the step that sent the statement nor the step that
\* answers changes the registry, the released flags or the pool: a
\* transaction that was registered, unreleased and holding its connection
\* is so after the call.
C17_FailedRollbackLeavesTx ==
    [][\A r \in Reqs :
         /\ (req[r].pc = "idle" /\ req'[r].kind = "rollback") => TxUntouched
         /\ (req[r].kind = "rollback" /\ EndsCall(r) /\ resp'.result # "ok")
               => /\ resp'.result = "error" /\ resp'.tid = req[r].tid
                  /\ TxUntouched
                  /\ \A id \in TxIds :
                        (id = req[r].tid /\ Pending(id)) => Pending(id)']_vars

\* the failed rollback answered, the transaction as it was
C17_Witness ==
    /\ resp.kind = "rollback" /\ resp.result = "error"
    /\ Pending(resp.tid)
    /\ releaseCalls[resp.tid] = 0
    /\ poolIdle = maxConnections - 1
\* ------------------------------------------------------- session creation
\* a step that constructs a transport/server pairing
Creates == Len(pairings') > Len(pairings)

C19_TransactionsOutliveSessions ==
    [][/\ (\E p \in 1..MaxSess : Closes(p))
             => /\ TxUntouched
                /\ nextId' = nextId /\ origin' = origin /\ req' = req
       /\ (AnsweredAtOnce({"commit", "rollback"}) /\ resp'.result = "NotFound")
             => ~hasTransaction(resp'.tid)]_vars

\* a transaction begun through a session that has since closed, committed
\* or rolled back through another session
C19_Witness ==
    \E r \in Reqs :
        /\ resp.kind \in {"commit", "rollback"} /\ resp.result = "ok"
        /\ Removed(origin[resp.tid])
        /\ Carried(r) /\ http[r].sid # origin[resp.tid]
        /\ ~hasTransaction(resp.tid)
====
